---- MODULE Spec2Model ----
(***************************************************************************)
(* mendeleyBibFix.c as a state machine: the entry extraction loop of main, *)
(* the per-entry field scan with its in-place shifts, the issn-to-year     *)
(* backfill and the append to the output string.                           *)
(*                                                                         *)
(* Buffers are strings; the byte at C offset k is the character at         *)
(* position k+1.  The C string terminator is written NUL.                  *)
(***************************************************************************)
EXTENDS Integers, Sequences, FiniteSets, TLC

VARIABLES
    cfg,                \* the five configuration flags of main
    inputContent,       \* memory from inputContent[0] up to the first NUL found
    fileLength,         \* bytes read from the file
    expected,           \* ghost: the records the input was built from, '@'..'}'
    pc,                 \* position in main
    curInputInd, curInputAnchorInd,
    curBibEntry,        \* the per-entry allocation, curBibLength0 + 1 bytes
    beyond,             \* the byte that follows the per-entry allocation
    curBibLength, curBibInd,
    bUrlException, bHasYear, bHasISSN, has_doi, issnInd,
    outputContent, numEntry,
    rawEntry,           \* ghost: curBibEntry as copied from the input
    yielded,            \* ghost: the '@'..'}' ranges copied so far
    lastOp,             \* ghost: the branch taken by the last scan step
    lastInd,            \* ghost: curBibInd when that branch was taken
    hiRead, hiWrite     \* ghost: highest offsets of curBibEntry read / written by shifts

vars == << cfg, inputContent, fileLength, expected, pc, curInputInd,
           curInputAnchorInd, curBibEntry, beyond, curBibLength, curBibInd,
           bUrlException, bHasYear, bHasISSN, has_doi, issnInd,
           outputContent, numEntry, rawEntry, yielded, lastOp, lastInd,
           hiRead, hiWrite >>

---------------------------------------------------------------------------
(* Characters and C string helpers *)

NUL == "$"
NL == "\n"

Min(a, b) == IF a < b THEN a ELSE b
Max(a, b) == IF a > b THEN a ELSE b

At(s, k) == SubSeq(s, k + 1, k + 1)

RECURSIVE Rep(_, _)
Rep(c, n) == IF n <= 0 THEN "" ELSE c \o Rep(c, n - 1)

\* the first offset k >= from with s[k] in cs, or -1 when s ends before one
RECURSIVE FirstOf(_, _, _)
FirstOf(s, cs, from) ==
    IF from >= Len(s) THEN -1
    ELSE IF At(s, from) \in cs THEN from
    ELSE FirstOf(s, cs, from + 1)

\* the C string held in s: the characters before the first NUL
CStr(s) ==
    LET z == FirstOf(s, { NUL }, 0)
    IN IF z >= 0 THEN SubSeq(s, 1, z) ELSE s

\* whether pat occurs in s
Contains(s, pat) ==
    \E k \in 0..(Len(s) - Len(pat)) : SubSeq(s, k + 1, k + Len(pat)) = pat

BIB_TYPE_MAX == 25
NUM_URL_EXCEPTIONS == 2
URL_EXCEPTION_TYPES == << "misc", "unpublished" >>

---------------------------------------------------------------------------
(* Memory of the per-entry buffer *)

\* buf[k]; an offset past the allocation reads the byte that follows it
Byte(buf, k) == IF k < Len(buf) THEN At(buf, k) ELSE beyond

\* !strncmp(&buf[k], lit, Len(lit)), lit without NUL
StrNCmpEq(buf, k, lit) ==
    /\ k + Len(lit) <= Len(buf)
    /\ SubSeq(buf, k + 1, k + Len(lit)) = lit

\* the n bytes at src, src+1, ...
Fetch(buf, src, n) ==
    LET inN == Max(0, Min(n, Len(buf) - src))
    IN SubSeq(buf, src + 1, src + inN) \o Rep(beyond, n - inN)

\* memmove(&buf[dst], &buf[src], n) within the allocation
Memmove(buf, dst, src, n) ==
    LET w == SubSeq(buf, 1, dst) \o Fetch(buf, src, n)
                 \o SubSeq(buf, dst + n + 1, Len(buf))
    IN SubSeq(w, 1, Len(buf))

RECURSIVE ApplyShifts(_, _)
ApplyShifts(buf, shifts) ==
    IF shifts = << >> THEN buf
    ELSE ApplyShifts(Memmove(buf, Head(shifts).dst, Head(shifts).src, Head(shifts).n),
                     Tail(shifts))

\* a negative count wraps to a size_t larger than any allocation
ShiftsOk(shifts) == \A j \in 1..Len(shifts) : shifts[j].n >= 0

RECURSIVE HiSrc(_)
HiSrc(shifts) ==
    IF shifts = << >> THEN -1
    ELSE Max(IF Head(shifts).n > 0 THEN Head(shifts).src + Head(shifts).n - 1 ELSE -1,
             HiSrc(Tail(shifts)))

RECURSIVE HiDst(_)
HiDst(shifts) ==
    IF shifts = << >> THEN -1
    ELSE Max(IF Head(shifts).n > 0 THEN Head(shifts).dst + Head(shifts).n - 1 ELSE -1,
             HiDst(Tail(shifts)))

\* findEndOfLine: -1 when the loop leaves the allocation without a newline
findEndOfLine(str, startInd) == FirstOf(str, { NL }, startInd)

\* findEndOfField: -1 when the loop leaves the allocation without "},\n"
\* the field end as located before v1.2.2: the first "}," whatever follows it
RECURSIVE findEndOfFieldNoNewline(_, _)
findEndOfFieldNoNewline(str, startInd) ==
    IF startInd >= Len(str) THEN -1
    ELSE IF StrNCmpEq(str, startInd + 1, "},") THEN startInd + 3
    ELSE findEndOfFieldNoNewline(str, startInd + 1)

RECURSIVE findEndOfField(_, _)
findEndOfField(str, startInd) ==
    IF startInd >= Len(str) THEN -1
    ELSE IF StrNCmpEq(str, startInd + 1, "},\n") THEN startInd + 3
    ELSE findEndOfField(str, startInd + 1)

---------------------------------------------------------------------------
(* Configuration and inputs *)

DefaultConfig ==
    [ turn_issn_into_missing_year    |-> FALSE,
      turn_every_entry_url_exception |-> TRUE,
      keep_url_only_if_no_doi        |-> TRUE,
      keep_annote                    |-> FALSE,
      keep_abstract                  |-> FALSE ]

\* the compiled-in flags, and the builds that change one of them
Configs ==
    { DefaultConfig,
      [DefaultConfig EXCEPT !.turn_issn_into_missing_year = TRUE],
      [DefaultConfig EXCEPT !.turn_every_entry_url_exception = FALSE],
      [DefaultConfig EXCEPT !.keep_url_only_if_no_doi = FALSE],
      [DefaultConfig EXCEPT !.keep_annote = TRUE],
      [DefaultConfig EXCEPT !.keep_abstract = TRUE] }

MaxFields == 2
MaxPieces == 2

\* field lines as the exporter writes them, without the separating ",\n"
Fields ==
    { "month = {jan}", "month = {{jan}}", "month = {a}",
      "title = {{Ab}}", "title = {Ab}",
      "annote = {p},q\nr}", "abstract = {s}",
      "doi = {1}", "file = {:f}", "url = {u}",
      "year = {2}", "issn = {34}",
      "note = {{\\{}x{\\}}}" }

NoOverride == [DefaultConfig EXCEPT !.turn_every_entry_url_exception = FALSE]

\* entry type and flags: the type decides only when the override is off
Builds ==
    { [ type |-> "article", cfg |-> c ] : c \in Configs }
        \cup { [ type |-> "misc", cfg |-> NoOverride ] }

FieldSeqs == UNION { [1..n -> Fields] : n \in 0..MaxFields }

RECURSIVE Body(_)
Body(fs) ==
    IF fs = << >> THEN "}\n"
    ELSE Head(fs) \o (IF Len(fs) = 1 THEN "\n" ELSE ",\n") \o Body(Tail(fs))

Record(ty, fs) == "@" \o ty \o "{k,\n" \o Body(fs)

\* a record without the byte that follows its closing brace
Strip(rec) == SubSeq(rec, 1, Len(rec) - 1)

RewriteFiles ==
    { [ text |-> Record(b.type, fs), expected |-> << Strip(Record(b.type, fs)) >>,
        cfg |-> b.cfg ] :
        b \in Builds, fs \in FieldSeqs }

\* whole records and the text between them
Pieces == { "@book{b,\nyear = {1}\n}\n", "@misc{m,\nnote = {a@b}\n}\n", "\n", "% c\n" }
PartialEntry == "@book{p,\nyear = {1}"
LastEntryNoNewline == "@book{e,\nyear = {1}\n}"
Trailers == { "", PartialEntry, LastEntryNoNewline }

PieceSeqs == UNION { [1..n -> Pieces] : n \in 0..MaxPieces }

RECURSIVE Concat(_)
Concat(ps) == IF ps = << >> THEN "" ELSE Head(ps) \o Concat(Tail(ps))

RECURSIVE RecordsOf(_)
RecordsOf(ps) ==
    IF ps = << >> THEN << >>
    ELSE (IF At(Head(ps), 0) = "@" THEN << Strip(Head(ps)) >> ELSE << >>)
             \o RecordsOf(Tail(ps))

ExtractFiles ==
    { [ text |-> Concat(ps) \o tr,
        expected |-> RecordsOf(ps)
                         \o (IF tr = LastEntryNoNewline THEN << tr >> ELSE << >>) ] :
        ps \in PieceSeqs, tr \in Trailers }

\* inputContent[fileLength] is never written: the bytes found there and after it
\* up to the first NUL
Tails == { "", "x", "\n" }

\* the byte after the per-entry allocation
BeyondBytes == { NUL, "}" }

---------------------------------------------------------------------------
(* Extraction loop *)

\* one record under every build, or several pieces under the default build with
\* every content of the unwritten byte
Init ==
    /\ \/ \E f \in RewriteFiles :
             /\ cfg = f.cfg
             /\ inputContent = f.text \o NUL
             /\ fileLength = Len(f.text)
             /\ expected = f.expected
       \/ \E f \in ExtractFiles, t \in Tails :
             /\ cfg = DefaultConfig
             /\ inputContent = f.text \o t \o NUL
             /\ fileLength = Len(f.text)
             /\ expected = f.expected
    /\ pc = "findStart"
    /\ curInputInd = 0
    /\ curInputAnchorInd = 0
    /\ curBibEntry = ""
    /\ beyond = NUL
    /\ curBibLength = 0
    /\ curBibInd = 0
    /\ bUrlException = FALSE
    /\ bHasYear = FALSE
    /\ bHasISSN = FALSE
    /\ has_doi = FALSE
    /\ issnInd = 0
    /\ outputContent = ""
    /\ numEntry = 0
    /\ rawEntry = ""
    /\ yielded = << >>
    /\ lastOp = "none"
    /\ lastInd = 0
    /\ hiRead = -1
    /\ hiWrite = -1

inputVars == << cfg, inputContent, fileLength, expected >>
entryVars == << curBibEntry, beyond, curBibLength, curBibInd, rawEntry,
                lastOp, lastInd, hiRead, hiWrite >>
flagVars == << bUrlException, bHasYear, bHasISSN, has_doi, issnInd >>
outVars == << outputContent, numEntry >>

\* the first offset at or after from holding '@' or NUL
NextStart(from) == FirstOf(inputContent, { "@", NUL }, from)

IsEntryEnd(k) ==
    \/ /\ At(inputContent, k) = "}"
       /\ At(inputContent, k - 1) = NL
       /\ At(inputContent, k + 1) \in { NL, NUL }
    \/ At(inputContent, k) = NUL

\* the first offset at or after from that ends the entry, or holds NUL
RECURSIVE NextEnd(_)
NextEnd(from) == IF IsEntryEnd(from) THEN from ELSE NextEnd(from + 1)

FindStart ==
    /\ pc = "findStart"
    /\ At(inputContent, NextStart(curInputInd)) = "@"
    /\ curInputAnchorInd' = NextStart(curInputInd)
    /\ curInputInd' = NextStart(curInputInd) + 1
    /\ pc' = "findEnd"
    /\ UNCHANGED << inputVars, entryVars, flagVars, outVars, yielded >>

EndOfInput ==
    /\ pc = "findStart"
    /\ At(inputContent, NextStart(curInputInd)) = NUL
    /\ curInputInd' = NextStart(curInputInd)
    /\ pc' = "done"
    /\ UNCHANGED << inputVars, curInputAnchorInd, entryVars, flagVars, outVars, yielded >>

FindEnd ==
    /\ pc = "findEnd"
    /\ At(inputContent, NextEnd(curInputInd)) # NUL
    /\ curInputInd' = NextEnd(curInputInd)
    /\ pc' = "copy"
    /\ UNCHANGED << inputVars, curInputAnchorInd, entryVars, flagVars, outVars, yielded >>

DropPartial ==
    /\ pc = "findEnd"
    /\ At(inputContent, NextEnd(curInputInd)) = NUL
    /\ curInputInd' = NextEnd(curInputInd)
    /\ pc' = "done"
    /\ UNCHANGED << inputVars, curInputAnchorInd, entryVars, flagVars, outVars, yielded >>

\* where the entry type loop stops
RECURSIVE TypeLoop(_, _)
TypeLoop(buf, k) ==
    IF Byte(buf, k) # "{" /\ k < BIB_TYPE_MAX THEN TypeLoop(buf, k + 1) ELSE k

TypeEnd(buf) == TypeLoop(buf, 1)

bibTypeOf(buf) == CStr(Fetch(buf, 1, TypeEnd(buf) - 1) \o NUL)

IsUrlException(bibType) ==
    \E curException \in 1..NUM_URL_EXCEPTIONS :
        bibType = URL_EXCEPTION_TYPES[curException]

CopyEntry ==
    /\ pc = "copy"
    /\ \E b \in BeyondBytes : beyond' = b
    /\ curBibLength' = curInputInd - curInputAnchorInd + 2
    /\ curBibEntry' = SubSeq(inputContent, curInputAnchorInd + 1,
                             curInputAnchorInd + curBibLength') \o NUL
    /\ rawEntry' = curBibEntry'
    /\ yielded' = Append(yielded,
                         SubSeq(inputContent, curInputAnchorInd + 1, curInputInd + 1))
    /\ curBibInd' = TypeEnd(curBibEntry')
    /\ bUrlException' = (IsUrlException(bibTypeOf(curBibEntry'))
                            \/ cfg.turn_every_entry_url_exception)
    /\ bHasYear' = FALSE
    /\ bHasISSN' = FALSE
    /\ has_doi' = FALSE
    /\ lastOp' = "none"
    /\ lastInd' = 0
    /\ hiRead' = -1
    /\ hiWrite' = -1
    /\ pc' = "scan"
    /\ UNCHANGED << inputVars, curInputInd, curInputAnchorInd, issnInd, outVars >>

---------------------------------------------------------------------------
(* Field scan: one action per branch of the scan loop *)

\* which branch the iteration at offset i takes
LineBranch(buf, i) ==
    IF StrNCmpEq(buf, i + 1, "month =") THEN "month"
    ELSE IF StrNCmpEq(buf, i + 1, "title =") THEN "title"
    ELSE IF \/ ~cfg.keep_annote /\ StrNCmpEq(buf, i + 1, "annote =")
            \/ ~cfg.keep_abstract /\ StrNCmpEq(buf, i + 1, "abstract =") THEN "field"
    ELSE IF StrNCmpEq(buf, i + 1, "doi =") THEN "doi"
    ELSE IF StrNCmpEq(buf, i + 1, "file =") THEN "file"
    ELSE IF StrNCmpEq(buf, i + 1, "url =") THEN "url"
    ELSE IF StrNCmpEq(buf, i + 1, "year =") THEN "year"
    ELSE IF StrNCmpEq(buf, i + 1, "issn =") THEN "issn"
    ELSE "none"

Branch(buf, i) ==
    IF Byte(buf, i) = NUL THEN "end"
    ELSE IF Byte(buf, i) = NL THEN LineBranch(buf, i)
    ELSE IF StrNCmpEq(buf, i, "{\\{}") THEN "open"
    ELSE IF StrNCmpEq(buf, i, "{\\}}") THEN "close"
    ELSE "none"

\* the first offset k >= from where the iteration takes a branch or the string
\* ends, or -1 when the scan leaves the allocation
RECURSIVE NextBranch(_, _)
NextBranch(buf, from) ==
    IF from >= Len(buf) THEN -1
    ELSE IF Branch(buf, from) # "none" THEN from
    ELSE NextBranch(buf, from + 1)

\* the month test: braces at fixed offsets from the newline
MonthMatches(buf, i) == Byte(buf, i + 9) = "{" /\ Byte(buf, i + 13) = "}"

\* the shifts of each edit, as memmove(dst, src, n); the three assignments of the
\* month branch are a 3-byte shift
\* deletes offset 12 only
MonthShiftsOneByte(i, len) ==
    << [dst |-> i + 9, src |-> i + 10, n |-> 3],
       [dst |-> i + 12, src |-> i + 13, n |-> len - i - 12] >>

MonthShifts(i, len) ==
    << [dst |-> i + 9, src |-> i + 10, n |-> 3],
       [dst |-> i + 12, src |-> i + 14, n |-> len - i - 13] >>

\* closes the gap over one byte instead of two
TitleShiftsOneBrace(i, indEOL, len) ==
    << [dst |-> i + 10, src |-> i + 11, n |-> indEOL - i - 13],
       [dst |-> indEOL - 3, src |-> indEOL - 2, n |-> len - indEOL + 3] >>

TitleShifts(i, indEOL, len) ==
    << [dst |-> i + 10, src |-> i + 11, n |-> indEOL - i - 13],
       [dst |-> indEOL - 3, src |-> indEOL - 1, n |-> len - indEOL + 2] >>

DeleteShifts(i, indEOL, len) ==
    << [dst |-> i + 1, src |-> indEOL + 1, n |-> len - indEOL + 1] >>

EscapeShifts(i, len) ==
    << [dst |-> i + 1, src |-> i + 4, n |-> len - i - 2] >>

\* the cursor without the decrement
CursorNotCorrected(i) == i + 1

\* curBibInd--, then the curBibInd++ that ends the iteration
CursorAfterDelete(i) == (i - 1) + 1

\* the offset of the newline before the issn line
IssnOffsetAtNewline(i) == i

\* the offset recorded for the issn line
IssnOffset(i) == i + 1

\* the url line is erased
UrlRemoved(urlException, hasDoi) ==
    \/ ~urlException
    \/ urlException /\ cfg.keep_url_only_if_no_doi /\ hasDoi

\* an edit of the buffer: buf0 is the buffer when the shifts start, located says
\* whether the line or field end was found inside the allocation
Edit(op, buf0, located, shifts, newLen, newInd) ==
    /\ lastOp' = op
    /\ lastInd' = curBibInd
    /\ IF located /\ ShiftsOk(shifts)
       THEN /\ curBibEntry' = ApplyShifts(buf0, shifts)
            /\ curBibLength' = newLen
            /\ curBibInd' = newInd
            /\ hiRead' = Max(hiRead, HiSrc(shifts))
            /\ hiWrite' = Max(hiWrite, HiDst(shifts))
            /\ pc' = "scan"
       ELSE /\ pc' = "fault"
            /\ UNCHANGED << curBibEntry, curBibLength, curBibInd, hiRead, hiWrite >>
    /\ UNCHANGED << inputVars, curInputInd, curInputAnchorInd, beyond, rawEntry,
                    flagVars, outVars, yielded >>

\* an iteration that leaves the buffer alone
NoEdit(op) ==
    /\ lastOp' = op
    /\ lastInd' = curBibInd
    /\ curBibInd' = curBibInd + 1
    /\ pc' = "scan"
    /\ UNCHANGED << inputVars, curInputInd, curInputAnchorInd, curBibEntry, beyond,
                    curBibLength, rawEntry, hiRead, hiWrite, outVars, yielded >>

MonthLine ==
    /\ pc = "scan"
    /\ Branch(curBibEntry, curBibInd) = "month"
    /\ IF MonthMatches(curBibEntry, curBibInd)
       THEN Edit("month", curBibEntry, TRUE, MonthShifts(curBibInd, curBibLength),
                 curBibLength - 2, curBibInd + 1)
       ELSE NoEdit("monthSkip") /\ UNCHANGED flagVars

TitleLine ==
    /\ pc = "scan"
    /\ Branch(curBibEntry, curBibInd) = "title"
    /\ LET indEOL == findEndOfLine(curBibEntry, curBibInd + 1)
       IN Edit("title", curBibEntry, indEOL >= 0,
               TitleShifts(curBibInd, indEOL, curBibLength),
               curBibLength - 2, curBibInd + 1)

\* annote / abstract: the cursor is decremented, then incremented by the loop
FieldDelete ==
    /\ pc = "scan"
    /\ Branch(curBibEntry, curBibInd) = "field"
    /\ LET indEOL == findEndOfField(curBibEntry, curBibInd + 1)
       IN Edit("field", curBibEntry, indEOL >= 0,
               DeleteShifts(curBibInd, indEOL, curBibLength),
               curBibLength - (indEOL - curBibInd), CursorAfterDelete(curBibInd))

DoiLine ==
    /\ pc = "scan"
    /\ Branch(curBibEntry, curBibInd) = "doi"
    /\ has_doi' = TRUE
    /\ NoEdit("doi")
    /\ UNCHANGED << bUrlException, bHasYear, bHasISSN, issnInd >>

FileLine ==
    /\ pc = "scan"
    /\ Branch(curBibEntry, curBibInd) = "file"
    /\ LET indEOL == findEndOfLine(curBibEntry, curBibInd + 1)
       IN Edit("file", curBibEntry, indEOL >= 0,
               DeleteShifts(curBibInd, indEOL, curBibLength),
               curBibLength - (indEOL - curBibInd), CursorAfterDelete(curBibInd))

UrlLine ==
    /\ pc = "scan"
    /\ Branch(curBibEntry, curBibInd) = "url"
    /\ IF UrlRemoved(bUrlException, has_doi)
       THEN LET indEOL == findEndOfLine(curBibEntry, curBibInd + 1)
            IN Edit("url", curBibEntry, indEOL >= 0,
                    DeleteShifts(curBibInd, indEOL, curBibLength),
                    curBibLength - (indEOL - curBibInd), CursorAfterDelete(curBibInd))
       ELSE NoEdit("urlKept") /\ UNCHANGED flagVars

YearLine ==
    /\ pc = "scan"
    /\ Branch(curBibEntry, curBibInd) = "year"
    /\ bHasYear' = TRUE
    /\ NoEdit("year")
    /\ UNCHANGED << bUrlException, bHasISSN, has_doi, issnInd >>

IssnLine ==
    /\ pc = "scan"
    /\ Branch(curBibEntry, curBibInd) = "issn"
    /\ bHasISSN' = TRUE
    /\ issnInd' = IssnOffset(curBibInd)
    /\ NoEdit("issn")
    /\ UNCHANGED << bUrlException, bHasYear, has_doi >>

OpenBrace ==
    /\ pc = "scan"
    /\ Branch(curBibEntry, curBibInd) = "open"
    /\ Edit("open", curBibEntry, TRUE, EscapeShifts(curBibInd, curBibLength),
            curBibLength - 3, curBibInd + 1)

\* the kept position is overwritten with '}' before the shift
CloseBrace ==
    /\ pc = "scan"
    /\ Branch(curBibEntry, curBibInd) = "close"
    /\ Edit("close",
            SubSeq(curBibEntry, 1, curBibInd) \o "}"
                \o SubSeq(curBibEntry, curBibInd + 2, Len(curBibEntry)),
            TRUE, EscapeShifts(curBibInd, curBibLength),
            curBibLength - 3, curBibInd + 1)

\* the iterations that take no branch only advance the cursor: up to the next
\* offset where a branch is taken or the string ends
Advance ==
    /\ pc = "scan"
    /\ Branch(curBibEntry, curBibInd) = "none"
    /\ lastOp' = "none"
    /\ lastInd' = curBibInd
    /\ IF NextBranch(curBibEntry, curBibInd + 1) >= 0
       THEN /\ curBibInd' = NextBranch(curBibEntry, curBibInd + 1)
            /\ pc' = "scan"
       ELSE /\ pc' = "fault"
            /\ UNCHANGED curBibInd
    /\ UNCHANGED << inputVars, curInputInd, curInputAnchorInd, curBibEntry, beyond,
                    curBibLength, rawEntry, hiRead, hiWrite, flagVars, outVars, yielded >>

\* the entry after the issn-to-year rename
Backfilled(buf) ==
    IF cfg.turn_issn_into_missing_year /\ ~bHasYear /\ bHasISSN
    THEN SubSeq(buf, 1, issnInd) \o "year" \o SubSeq(buf, issnInd + 5, Len(buf))
    ELSE buf

\* end of the scan: backfill, strcat to the output, numEntry++
FinishEntry ==
    /\ pc = "scan"
    /\ Branch(curBibEntry, curBibInd) = "end"
    /\ curBibEntry' = Backfilled(curBibEntry)
    /\ outputContent' = outputContent \o CStr(curBibEntry')
    /\ numEntry' = numEntry + 1
    /\ lastOp' = "finish"
    /\ lastInd' = curBibInd
    /\ pc' = "findStart"
    /\ UNCHANGED << inputVars, curInputInd, curInputAnchorInd, beyond, curBibLength,
                    curBibInd, rawEntry, hiRead, hiWrite, flagVars, yielded >>

Next ==
    \/ FindStart
    \/ EndOfInput
    \/ FindEnd
    \/ DropPartial
    \/ CopyEntry
    \/ MonthLine
    \/ TitleLine
    \/ FieldDelete
    \/ DoiLine
    \/ FileLine
    \/ UrlLine
    \/ YearLine
    \/ IssnLine
    \/ OpenBrace
    \/ CloseBrace
    \/ Advance
    \/ FinishEntry

Spec == Init /\ [][Next]_vars

---------------------------------------------------------------------------
(* Properties *)

\* the fixed entry as it is appended to the output
Fixed == CStr(curBibEntry)
Raw == CStr(rawEntry)

\* the scan of the current entry has ended and the entry was appended
Finished == lastOp = "finish"

\* C1: when the run ends, the records copied out of the input are exactly the
\* records the input was built from, each once and in input order, and a
\* trailing partial record is not among them.
C1_EveryRecordYielded == pc = "done" => yielded = expected

\* a record with none of the defects the scan fixes
DefectFree(rec) ==
    /\ ~Contains(rec, "\ntitle = {{")
    /\ ~Contains(rec, "{\\{}")
    /\ ~Contains(rec, "{\\}}")
    /\ ~Contains(rec, "\nmonth = {")
    /\ ~Contains(rec, "\nannote =")
    /\ ~Contains(rec, "\nabstract =")
    /\ ~Contains(rec, "\nfile =")
    /\ ~Contains(rec, "\nurl =")

\* C2: under the default flags a record without any fixable defect, a singly
\* braced title line included, is appended byte for byte as it was read.
C2_DefectFreeUnchanged ==
    (Finished /\ cfg = DefaultConfig /\ DefectFree(Raw)) => Fixed = Raw

\* C3: under the default flags an article with a url line and no doi line is
\* appended without its url line.
C3_ArticleUrlOmitted ==
    (/\ Finished
     /\ cfg = DefaultConfig
     /\ StrNCmpEq(Raw, 0, "@article{")
     /\ Contains(Raw, "\nurl =")
     /\ ~Contains(Raw, "\ndoi ="))
        => ~Contains(Fixed, "\nurl =")

\* the line after offset i is month = {ccc} with three plain characters
ThreeCharMonth(buf, i) ==
    /\ StrNCmpEq(buf, i + 1, "month = {")
    /\ i + 13 < Len(buf)
    /\ At(buf, i + 13) = "}"
    /\ \A j \in 10..12 : At(buf, i + j) \notin { "{", "}", ",", NL, NUL }

\* C9: the scan step at a month line whose value is not a 3-character
\* abbreviation in the expected layout leaves the record untouched.
C9_OtherMonthUntouched ==
    [][ (/\ pc = "scan"
         /\ Branch(curBibEntry, curBibInd) = "month"
         /\ ~ThreeCharMonth(curBibEntry, curBibInd))
            => curBibEntry' = curBibEntry ]_vars

\* a scan step that shifted the buffer
Edited == lastOp \in { "month", "title", "field", "file", "url", "open", "close" }

\* C10: while an entry is fixed every shift reads and writes inside the
\* allocation (offsets 0 .. initial length), the logical length never exceeds
\* the initial length, and after an edit it is the offset of the NUL.
C10_ShiftsInsideAllocation ==
    pc = "scan" =>
        /\ hiRead <= Len(rawEntry) - 1
        /\ hiWrite <= Len(rawEntry) - 1
        /\ curBibLength <= Len(rawEntry) - 1
        /\ Edited => Len(Fixed) = curBibLength

\* the bytes of s at offsets a .. b
Span(s, a, b) == SubSeq(s, a + 1, b + 1)

\* the bytes of s from offset a on
From(s, a) == SubSeq(s, a + 1, Len(s))

\* the scan is about to take branch b
AtBranch(b) == pc = "scan" /\ Branch(curBibEntry, curBibInd) = b

\* C4 as stated: a record with the line month = {{jan}}, is appended with
\* month = {jan}, in its place.
C4_DoubledMonthUnbraced ==
    (Finished /\ Contains(Raw, "\nmonth = {{jan}},\n"))
        => Contains(Fixed, "\nmonth = {jan},\n")

\* C4 amended: at a line month = {ccc} the scan step removes exactly the brace
\* pair around the three characters (two bytes less, all else unchanged); a
\* line month = {{jan}} is left as it is.
C4_BracedMonthUnbraced ==
    [][ AtBranch("month") =>
          LET i == curBibInd
              str == CStr(curBibEntry)
          IN /\ ThreeCharMonth(curBibEntry, i) =>
                   /\ pc' = "scan"
                   /\ CStr(curBibEntry') =
                          Span(str, 0, i + 8) \o Span(str, i + 10, i + 12) \o From(str, i + 14)
                   /\ curBibLength' = curBibLength - 2
             /\ StrNCmpEq(curBibEntry, i + 1, "month = {{jan}}") =>
                   /\ curBibEntry' = curBibEntry
                   /\ curBibLength' = curBibLength ]_vars

C4_Witness ==
    /\ lastOp = "month"
    /\ Contains(Raw, "\nmonth = {jan},\n")
    /\ Contains(Fixed, "\nmonth = jan,\n")
    /\ Len(Fixed) = Len(Raw) - 2

\* the offset of the first newline of s after offset i, or -1
LineEnd(s, i) ==
    IF \E k \in (i + 1)..(Len(s) - 1) : At(s, k) = NL
    THEN CHOOSE k \in (i + 1)..(Len(s) - 1) :
             At(s, k) = NL /\ \A j \in (i + 1)..(k - 1) : At(s, j) # NL
    ELSE -1

\* C5: at a line title = {{T}}, or, as the last field, title = {{T}} with T not
\* empty, the scan step removes one opening and one closing brace: T and every
\* byte outside the line are kept in order, the length drops by 2.
C5_TitleUnbraced ==
    [][ AtBranch("title") =>
          LET i == curBibInd
              str == CStr(curBibEntry)
              e == LineEnd(str, i)
          IN /\ (/\ StrNCmpEq(str, i + 1, "title = {{")
                 /\ e >= i + 15
                 /\ Span(str, e - 3, e - 1) = "}},") =>
                   /\ pc' = "scan"
                   /\ CStr(curBibEntry') =
                          Span(str, 0, i + 9) \o Span(str, i + 11, e - 4) \o From(str, e - 2)
                   /\ curBibLength' = curBibLength - 2
             /\ (/\ StrNCmpEq(str, i + 1, "title = {{")
                 /\ e >= i + 14
                 /\ At(str, e - 1) # ","
                 /\ Span(str, e - 2, e - 1) = "}}") =>
                   /\ pc' = "scan"
                   /\ CStr(curBibEntry') =
                          Span(str, 0, i + 9) \o Span(str, i + 11, e - 3) \o From(str, e - 1)
                   /\ curBibLength' = curBibLength - 2 ]_vars

C5_Witness ==
    /\ lastOp = "title"
    /\ Contains(Raw, "\ntitle = {{Ab}},\n")
    /\ Contains(Fixed, "\ntitle = {Ab},\n")
    /\ Len(Fixed) = Len(Raw) - 2

\* the offset of the first "},\n" of s after offset i, or -1
FieldClose(s, i) ==
    IF \E k \in (i + 1)..(Len(s) - 3) : Span(s, k, k + 2) = "},\n"
    THEN CHOOSE k \in (i + 1)..(Len(s) - 3) :
             /\ Span(s, k, k + 2) = "},\n"
             /\ \A j \in (i + 1)..(k - 1) : Span(s, j, j + 2) # "},\n"
    ELSE -1

\* C6: with annote discarded, the scan step at an annote field that is closed
\* by "},\n" removes the bytes from the start of the annote line through the
\* newline of the first "},\n" and nothing else, braces inside the text or not.
C6_AnnoteRemovedWhole ==
    [][ (/\ AtBranch("field")
         /\ StrNCmpEq(curBibEntry, curBibInd + 1, "annote =")
         /\ FieldClose(CStr(curBibEntry), curBibInd) >= 0) =>
          LET i == curBibInd
              str == CStr(curBibEntry)
              t == FieldClose(str, i)
          IN /\ pc' = "scan"
             /\ CStr(curBibEntry') = Span(str, 0, i) \o From(str, t + 3)
             /\ curBibLength' = curBibLength - (t + 2 - i) ]_vars

C6_Witness ==
    /\ lastOp = "field"
    /\ ~cfg.keep_annote
    /\ Contains(Raw, "\nannote = {p},q\nr},\n")
    /\ ~Contains(Fixed, "annote")
    /\ ~Contains(Fixed, "q")
    /\ Len(Fixed) = Len(Raw) - Len("annote = {p},q\nr},\n")

\* C7: the offset recorded for the issn line points at "issn" at the start of a
\* line whatever is edited before or after it; at the end of the scan, with the
\* backfill on, an issn line and no year line, exactly these four bytes become
\* "year", and otherwise nothing is renamed.
C7_IssnRenamedInPlace ==
    [][ /\ (pc' = "scan" /\ bHasISSN') =>
              /\ issnInd' >= 1
              /\ At(curBibEntry', issnInd' - 1) = NL
              /\ StrNCmpEq(curBibEntry', issnInd', "issn =")
        /\ AtBranch("end") =>
              IF /\ cfg.turn_issn_into_missing_year
                 /\ Contains(Raw, "\nissn =")
                 /\ ~Contains(Raw, "\nyear =")
              THEN /\ Span(curBibEntry, issnInd, issnInd + 3) = "issn"
                   /\ curBibEntry' =
                          Span(curBibEntry, 0, issnInd - 1) \o "year"
                              \o From(curBibEntry, issnInd + 4)
              ELSE curBibEntry' = curBibEntry ]_vars

C7_Witness ==
    /\ Finished
    /\ cfg.turn_issn_into_missing_year
    /\ Contains(Raw, "\nfile = {:f},\nissn = {34}\n")
    /\ Contains(Fixed, "\nyear = {34}\n")
    /\ ~Contains(Fixed, "issn")

\* the type and flags under which every url line is erased
UrlAlwaysRemoved ==
    /\ ~cfg.turn_every_entry_url_exception
    /\ StrNCmpEq(Raw, 0, "@article{")

\* C8: a deletion leaves the cursor on the newline before the deleted text, so
\* the next step tests the line that slid there; at the end of the scan no
\* removable line is left and no title or month line is left unfixed.
C8_DeletionRescansLine ==
    [][ /\ (pc' = "scan" /\ lastOp' \in { "field", "file", "url" }) =>
              /\ curBibInd' = curBibInd
              /\ At(curBibEntry', curBibInd') = NL
              /\ From(CStr(curBibEntry'), curBibInd' + 1)
                     = From(CStr(curBibEntry), curBibInd + 1 + (curBibLength - curBibLength'))
        /\ AtBranch("end") =>
              /\ ~Contains(Fixed, "\nfile =")
              /\ ~cfg.keep_annote => ~Contains(Fixed, "\nannote =")
              /\ ~cfg.keep_abstract => ~Contains(Fixed, "\nabstract =")
              /\ UrlAlwaysRemoved => ~Contains(Fixed, "\nurl =")
              /\ ~Contains(Fixed, "\ntitle = {{")
              /\ ~Contains(Fixed, "\nmonth = {jan}") ]_vars

C8_Witness ==
    /\ lastOp = "title"
    /\ Contains(Raw, "\nfile = {:f},\ntitle = {{Ab}}\n")
    /\ ~Contains(Fixed, "file")
    /\ Contains(Fixed, "\ntitle = {Ab}\n")

====
